---- MODULE Spec2Model ----
(***************************************************************************)
(* Model of the image distribution engine of containerd's client:          *)
(* Client.Pull and Client.Push (client.go) driving images.Dispatch over a  *)
(* content graph with a chain of handlers.                                 *)
(*                                                                         *)
(* Client.Pull, Client.Push, the push filterHandler and the RemoteContext  *)
(* options are translated from client.go.  The packages they call          *)
(* (images.Dispatch, images.Handlers, images.ChildrenHandler,              *)
(* remotes.FetchHandler, remotes.PushHandler, schema1.Converter, the image *)
(* store and the content store) are modelled from their contracts.         *)
(***************************************************************************)
EXTENDS Integers, Sequences, FiniteSets, TLC

VARIABLES
    cfg,            \* the inputs of the run: operation, content graph, RemoteContext
                    \* options, and the image store as the run finds it (registry0)
    pc,             \* pc[c]: position of call c inside Pull / Push
    desc,           \* desc[c]: the local variable desc of Pull (root, or converted root)
    tasks,          \* tasks[c]: the goroutines of images.Dispatch, keyed by child-index path
    derr,           \* derr[c]: first hard error seen by the dispatch of call c
    manifestStack,  \* manifestStack[c]: the manifestStack slice of Push
    uploads,        \* uploads[c]: descriptors handed to pushHandler, in completion order
    calls,          \* calls[c]: image-store / unpack calls issued by Pull, in order
    result,         \* result[c]: what the call returned ("none" while running)
    store,          \* content store: the digests present locally
    added,          \* added[c]: digests that call c's writes added to the content store
    writes,         \* writes[c]: digests call c has written to the content store
    idx,            \* idx[c]: the loop variable i of Push's final pass
    unpacked,       \* unpacked[c]: the snapshotter names call c handed to img.Unpack
    registry        \* image store: a set of records [name, target]

vars == <<cfg, pc, desc, tasks, derr, manifestStack, idx, uploads, calls, result,
          store, added, writes, registry, unpacked>>

----------------------------------------------------------------------------
(* Bounds of the model *)

\* number of Pull calls issued in one run
NumCalls == 2
\* number of caller-supplied base handlers (RemoteContext.BaseHandlers)
NumBase == 1

Calls == 1..NumCalls

----------------------------------------------------------------------------
(* Media types and content graphs *)

MediaTypeDockerSchema2Manifest     == "docker.manifest.v2"
MediaTypeImageManifest             == "oci.manifest.v1"
MediaTypeDockerSchema2ManifestList == "docker.manifest.list.v2"
MediaTypeImageIndex                == "oci.index.v1"
MediaTypeDockerSchema1Manifest     == "docker.manifest.v1"
MediaTypeLayer                     == "layer"
MediaTypeConfig                    == "config"

\* The digests of the root of every graph, of the descriptor produced by the
\* schema 1 conversion, and of the target of a record left by an earlier pull.
Root      == "root"
Converted == "converted"
OldTarget == "old"
\* The name Resolve returns for the reference.
Name == "name"
\* the Snapshotter of defaultRemoteContext (the zero value) and a name given
\* with WithPullSnapshotter
DefaultSnapshotter == ""
OtherSnapshotter == "btrfs"

\* The content graphs pulled or pushed: mt is the media type of each digest,
\* ch the child descriptors its manifest lists (in order).
GManifest ==
    [mt |-> [d \in {"root", "l1", "l2"} |->
                IF d = "root" THEN MediaTypeImageManifest
                ELSE IF d = "l1" THEN MediaTypeConfig ELSE MediaTypeLayer],
     ch |-> [d \in {"root", "l1", "l2"} |->
                IF d = "root" THEN <<"l1", "l2">> ELSE <<>>]]

\* a manifest list with two platform manifests that share their layer
GList ==
    [mt |-> [d \in {"root", "m1", "m2", "l1"} |->
                IF d = "root" THEN MediaTypeDockerSchema2ManifestList
                ELSE IF d \in {"m1", "m2"} THEN MediaTypeDockerSchema2Manifest
                ELSE MediaTypeLayer],
     ch |-> [d \in {"root", "m1", "m2", "l1"} |->
                IF d = "root" THEN <<"m1", "m2">>
                ELSE IF d \in {"m1", "m2"} THEN <<"l1">> ELSE <<>>]]

\* an index holding a nested index and, directly, the manifest the nested
\* index also holds: m1 is reachable at depth 1 and at depth 2
GNested ==
    [mt |-> [d \in {"root", "i1", "m1", "l1"} |->
                IF d \in {"root", "i1"} THEN MediaTypeImageIndex
                ELSE IF d = "m1" THEN MediaTypeImageManifest
                ELSE MediaTypeLayer],
     ch |-> [d \in {"root", "i1", "m1", "l1"} |->
                IF d = "root" THEN <<"m1", "i1">>
                ELSE IF d = "i1" THEN <<"m1">>
                ELSE IF d = "m1" THEN <<"l1">> ELSE <<>>]]

\* a legacy schema 1 manifest with one layer
GSchema1 ==
    [mt |-> [d \in {"root", "l1"} |->
                IF d = "root" THEN MediaTypeDockerSchema1Manifest ELSE MediaTypeLayer],
     ch |-> [d \in {"root", "l1"} |->
                IF d = "root" THEN <<"l1">> ELSE <<>>]]

\* a single blob
GBlob ==
    [mt |-> [d \in {"root"} |-> MediaTypeLayer],
     ch |-> [d \in {"root"} |-> <<>>]]

Graphs == {GManifest, GList, GNested, GSchema1, GBlob}
SmallGraphs == {GSchema1, GBlob}

Nodes == DOMAIN cfg.graph.mt
MediaType(d) == cfg.graph.mt[d]
Children(d) == cfg.graph.ch[d]

Range(s) == {s[i] : i \in 1..Len(s)}

\* the switch of filterHandler
IsManifestLike(d) ==
    MediaType(d) \in {MediaTypeDockerSchema2Manifest, MediaTypeImageManifest,
                      MediaTypeDockerSchema2ManifestList, MediaTypeImageIndex}

----------------------------------------------------------------------------
(* RemoteContext and the handler chains *)

\* RemoteContext.BaseHandlers: the caller-supplied handlers
BaseHandlers == [i \in 1..NumBase |-> "base"]

\* the converter installed for every schema 1 root, whatever the option says
schema1ConverterAlways ==
    MediaType(Root) = MediaTypeDockerSchema1Manifest

\* Pull: desc.MediaType == MediaTypeDockerSchema1Manifest && pullCtx.ConvertSchema1
schema1Converter ==
    MediaType(Root) = MediaTypeDockerSchema1Manifest /\ cfg.ConvertSchema1

\* a Pull chain that lacks the children-discovery handler
PullHandlersNoChildren ==
    IF schema1Converter
    THEN BaseHandlers \o <<"schema1Converter">>
    ELSE BaseHandlers \o <<"FetchHandler">>

\* a Pull chain that holds the children-discovery handler twice
PullHandlersTwice ==
    IF schema1Converter
    THEN BaseHandlers \o <<"schema1Converter">>
    ELSE BaseHandlers \o <<"FetchHandler", "ChildrenHandler", "ChildrenHandler">>

\* a Pull chain that discovers the children before it fetches
PullHandlersSwapped ==
    IF schema1Converter
    THEN BaseHandlers \o <<"schema1Converter">>
    ELSE BaseHandlers \o <<"ChildrenHandler", "FetchHandler">>

\* the handler chain Pull hands to images.Dispatch
PullHandlers ==
    IF schema1Converter
    THEN BaseHandlers \o <<"schema1Converter">>
    ELSE BaseHandlers \o <<"FetchHandler", "ChildrenHandler">>

\* the handler chain Push hands to images.Dispatch
PushHandlers ==
    BaseHandlers \o <<"ChildrenHandler", "filterHandler", "pushHandler">>

Handlers == IF cfg.op = "pull" THEN PullHandlers ELSE PushHandlers

\* The edges of the graph a dispatch discovers: the children the chain returns
\* for d (ChildrenHandler for manifests and indexes, the converter for a
\* schema 1 manifest).
Links(d) ==
    IF cfg.op = "pull" /\ schema1Converter THEN Children(d)
    ELSE IF IsManifestLike(d) THEN Children(d) ELSE <<>>

RECURSIVE Descendants(_)
Descendants(d) ==
    Range(Links(d)) \cup UNION {Descendants(k) : k \in Range(Links(d))}

Reachable == {Root} \cup Descendants(Root)

\* the number of paths of the discovered graph that lead from a to d
RECURSIVE PathCount(_, _)
PathCount(a, d) ==
    IF a = d THEN 1
    ELSE LET ks == Links(a)
             RECURSIVE Sum(_)
             Sum(i) == IF i = 0 THEN 0 ELSE PathCount(ks[i], d) + Sum(i - 1)
         IN  Sum(Len(ks))

----------------------------------------------------------------------------
(* images.Dispatch and images.Handlers *)

\* One goroutine of Dispatch: the descriptor it handles, the index in the
\* chain of the next handler to run (0 once the chain has returned) and the
\* children the handlers of the chain have returned so far, with the handlers
\* that have been invoked on it, in order of invocation; whether it is between
\* Lock and Unlock of Push's mutex, and the slice it read there.  A goroutine
\* is named by the path of child indices that leads to it from the root call.
NoTasks == [t \in {} |-> 0]
NewTask(d) ==
    [desc |-> d, pc |-> 1, children |-> <<>>, ran |-> <<>>,
     locked |-> FALSE, local |-> <<>>]
RootTask == (<<>> :> NewTask(Root))

\* goroutine t of call c is about to run handler h
Running(c, t, h) ==
    /\ pc[c] = "dispatch"
    /\ t \in DOMAIN tasks[c]
    /\ tasks[c][t].pc > 0
    /\ Handlers[tasks[c][t].pc] = h

\* the handlers invoked on t once the one it is about to run has returned
Ran(c, t) == Append(tasks[c][t].ran, Handlers[tasks[c][t].pc])

\* Dispatch: the chain returned kids for t without error: one goroutine per
\* child is started, unless the dispatch has already failed
DispatchChildren(c, t, kids) ==
    LET done == [tasks[c] EXCEPT ![t] = [@ EXCEPT !.pc = 0, !.children = kids, !.ran = Ran(c, t)]]
        next == IF derr[c] = "none" THEN kids ELSE <<>>
        spawned == [u \in {t \o <<i>> : i \in 1..Len(next)} |->
                        NewTask(next[u[Len(u)]])]
    IN  /\ tasks' = [tasks EXCEPT ![c] = done @@ spawned]
        /\ UNCHANGED derr

\* Handlers: the handler at tasks[c][t].pc returned ch and no error
HandlerReturns(c, t, ch) ==
    LET tk == tasks[c][t]
        kids == tk.children \o ch
    IN  IF tk.pc < Len(Handlers)
        THEN /\ tasks' = [tasks EXCEPT ![c][t] = [tk EXCEPT !.pc = @ + 1, !.children = kids, !.ran = Ran(c, t)]]
             /\ UNCHANGED derr
        ELSE DispatchChildren(c, t, kids)

\* Handlers: the handler returned StopHandler: the rest of the chain is
\* skipped for this descriptor, the children collected so far are returned
HandlerStops(c, t) ==
    DispatchChildren(c, t, tasks[c][t].children)

\* Handlers and Dispatch: the handler returned the hard error e: the chain
\* returns it, the goroutine ends, and the first such error is the dispatch's
HandlerFails(c, t, e) ==
    /\ tasks' = [tasks EXCEPT ![c][t] = [@ EXCEPT !.pc = 0, !.ran = Ran(c, t)]]
    /\ derr' = [derr EXCEPT ![c] = IF @ = "none" THEN e ELSE @]

\* eg.Wait(): every goroutine started has returned
DispatchDone(c) ==
    /\ pc[c] = "dispatch"
    /\ \A t \in DOMAIN tasks[c] : tasks[c][t].pc = 0

\* content.Store write: writing an existing digest is a no-op
StoreWrite(c, d) ==
    /\ store' = store \cup {d}
    /\ added' = [added EXCEPT ![c] = IF d \in store THEN @ ELSE @ \cup {d}]
    /\ writes' = [writes EXCEPT ![c] = @ \cup {d}]

----------------------------------------------------------------------------
(* The handlers *)

\* a caller-supplied base handler (progress, logging): no children
BaseHandler(c, t) ==
    /\ Running(c, t, "base")
    /\ \/ HandlerReturns(c, t, <<>>)
       \/ HandlerFails(c, t, "BaseError")
    /\ UNCHANGED <<cfg, unpacked, pc, desc, manifestStack, idx, uploads, calls, result,
                   store, added, writes, registry>>

\* remotes.FetchHandler: schema 1 is refused, anything else is fetched into
\* the content store
FetchHandler(c, t) ==
    /\ Running(c, t, "FetchHandler")
    /\ LET d == tasks[c][t].desc IN
       IF MediaType(d) = MediaTypeDockerSchema1Manifest
       THEN /\ HandlerFails(c, t, "UnsupportedFormat")
            /\ UNCHANGED <<store, added, writes>>
       ELSE \/ /\ StoreWrite(c, d)
               /\ HandlerReturns(c, t, <<>>)
            \/ /\ HandlerFails(c, t, "FetchError")
               /\ UNCHANGED <<store, added, writes>>
    /\ UNCHANGED <<cfg, unpacked, pc, desc, manifestStack, idx, uploads, calls, result, registry>>

\* images.ChildrenHandler: reads a manifest or index from the content store
\* and returns the descriptors it lists
ChildrenHandler(c, t) ==
    /\ Running(c, t, "ChildrenHandler")
    /\ LET d == tasks[c][t].desc IN
       IF ~IsManifestLike(d) THEN HandlerReturns(c, t, <<>>)
       ELSE IF d \notin store THEN HandlerFails(c, t, "NotFound")
       ELSE HandlerReturns(c, t, Children(d))
    /\ UNCHANGED <<cfg, unpacked, pc, desc, manifestStack, idx, uploads, calls, result,
                   store, added, writes, registry>>

\* schema1.Converter.Handle: the manifest is fetched and its layers are
\* returned as children; a layer is fetched into the content store
Schema1Handler(c, t) ==
    /\ Running(c, t, "schema1Converter")
    /\ LET d == tasks[c][t].desc IN
       \/ IF MediaType(d) = MediaTypeDockerSchema1Manifest
          THEN /\ HandlerReturns(c, t, Children(d))
               /\ UNCHANGED <<store, added, writes>>
          ELSE /\ StoreWrite(c, d)
               /\ HandlerReturns(c, t, <<>>)
       \/ /\ HandlerFails(c, t, "FetchError")
          /\ UNCHANGED <<store, added, writes>>
    /\ UNCHANGED <<cfg, unpacked, pc, desc, manifestStack, idx, uploads, calls, result, registry>>

\* filterHandler without the StopHandler return
filterHandlerPass(c, t) ==
    /\ Running(c, t, "filterHandler")
    /\ LET d == tasks[c][t].desc IN
       /\ manifestStack' = [manifestStack EXCEPT ![c] =
                               IF IsManifestLike(d) THEN Append(@, d) ELSE @]
       /\ HandlerReturns(c, t, <<>>)
    /\ UNCHANGED <<cfg, unpacked, pc, desc, idx, uploads, calls, result,
                   store, added, writes, registry>>

\* filterHandler whose switch lacks the two index media types
filterHandlerManifestsOnly(c, t) ==
    /\ Running(c, t, "filterHandler")
    /\ LET d == tasks[c][t].desc IN
       IF MediaType(d) \in {MediaTypeDockerSchema2Manifest, MediaTypeImageManifest}
       THEN /\ manifestStack' = [manifestStack EXCEPT ![c] = Append(@, d)]
            /\ HandlerStops(c, t)
       ELSE /\ HandlerReturns(c, t, <<>>)
            /\ UNCHANGED manifestStack
    /\ UNCHANGED <<cfg, unpacked, pc, desc, idx, uploads, calls, result,
                   store, added, writes, registry>>

\* Push's mutex m: the goroutines of call c between m.Lock() and m.Unlock()
m(c) == {t \in DOMAIN tasks[c] : tasks[c][t].pc > 0 /\ tasks[c][t].locked}

\* filterHandler that enters the critical section without taking the mutex
filterHandlerNoLock(c, t) ==
    /\ Running(c, t, "filterHandler")
    /\ ~tasks[c][t].locked
    /\ LET d == tasks[c][t].desc IN
       IF IsManifestLike(d)
       THEN /\ tasks' = [tasks EXCEPT ![c][t] =
                            [@ EXCEPT !.locked = TRUE, !.local = manifestStack[c]]]
            /\ UNCHANGED derr
       ELSE HandlerReturns(c, t, <<>>)
    /\ UNCHANGED <<cfg, unpacked, pc, desc, manifestStack, idx, uploads, calls, result,
                   store, added, writes, registry>>

\* Push's filterHandler, up to the append: a manifest-like descriptor waits
\* for the mutex, takes it and reads manifestStack; others pass
filterHandler(c, t) ==
    /\ Running(c, t, "filterHandler")
    /\ ~tasks[c][t].locked
    /\ LET d == tasks[c][t].desc IN
       IF IsManifestLike(d)
       THEN /\ m(c) = {}
            /\ tasks' = [tasks EXCEPT ![c][t] =
                            [@ EXCEPT !.locked = TRUE, !.local = manifestStack[c]]]
            /\ UNCHANGED derr
       ELSE HandlerReturns(c, t, <<>>)
    /\ UNCHANGED <<cfg, unpacked, pc, desc, manifestStack, idx, uploads, calls, result,
                   store, added, writes, registry>>

\* filterHandler that puts the descriptor in front of the slice it read
filterHandlerPrepend(c, t) ==
    /\ Running(c, t, "filterHandler")
    /\ tasks[c][t].locked
    /\ manifestStack' = [manifestStack EXCEPT ![c] =
                            <<tasks[c][t].desc>> \o tasks[c][t].local]
    /\ HandlerStops(c, t)
    /\ UNCHANGED <<cfg, unpacked, pc, desc, idx, uploads, calls, result,
                   store, added, writes, registry>>

\* Push's filterHandler, from the append: the slice read with the descriptor
\* appended is stored in manifestStack, the mutex is released and
\* StopHandler stops the chain
filterHandlerAppend(c, t) ==
    /\ Running(c, t, "filterHandler")
    /\ tasks[c][t].locked
    /\ manifestStack' = [manifestStack EXCEPT ![c] =
                            Append(tasks[c][t].local, tasks[c][t].desc)]
    /\ HandlerStops(c, t)
    /\ UNCHANGED <<cfg, unpacked, pc, desc, idx, uploads, calls, result,
                   store, added, writes, registry>>

\* remotes.PushHandler as the last handler of the chain
pushHandler(c, t) ==
    /\ Running(c, t, "pushHandler")
    /\ \/ /\ uploads' = [uploads EXCEPT ![c] = Append(@, tasks[c][t].desc)]
          /\ HandlerReturns(c, t, <<>>)
       \/ /\ HandlerFails(c, t, "UploadError")
          /\ UNCHANGED uploads
    /\ UNCHANGED <<cfg, unpacked, pc, desc, manifestStack, idx, calls, result,
                   store, added, writes, registry>>

----------------------------------------------------------------------------
(* The image store (images.Store) *)

HasRecord == \E r \in registry : r.name = Name
ImageRecord(d) == [name |-> Name, target |-> d]

\* Update an existing record's target in place
StoreUpdate(d) == {r \in registry : r.name # Name} \cup {ImageRecord(d)}
\* Create a record
StoreCreate(d) == registry \cup {ImageRecord(d)}

----------------------------------------------------------------------------
(* Client.Pull *)

\* the caller issues call c, one of the cfg.ncalls calls of the run: calls
\* follow one another unless the run is one of concurrent callers
CanStart(c) ==
    /\ pc[c] = "idle"
    /\ c <= cfg.ncalls
    /\ cfg.concurrent \/ \A q \in Calls : q < c => pc[q] = "done"

Return(c, r) ==
    /\ pc' = [pc EXCEPT ![c] = "done"]
    /\ result' = [result EXCEPT ![c] = r]

\* name, desc, err := pullCtx.Resolver.Resolve(ctx, ref)
PullResolve(c) ==
    /\ cfg.op = "pull"
    /\ CanStart(c)
    /\ \/ /\ pc' = [pc EXCEPT ![c] = "fetcher"]
          /\ desc' = [desc EXCEPT ![c] = Root]
          /\ UNCHANGED result
       \/ /\ Return(c, "ResolveError")
          /\ UNCHANGED desc
    /\ UNCHANGED <<cfg, unpacked, tasks, derr, manifestStack, idx, uploads, calls,
                   store, added, writes, registry>>

\* fetcher, err := pullCtx.Resolver.Fetcher(ctx, name); the handler chain is
\* built and images.Dispatch(ctx, handler, desc) starts on the root
PullFetcher(c) ==
    /\ pc[c] = "fetcher"
    /\ \/ /\ pc' = [pc EXCEPT ![c] = "dispatch"]
          /\ tasks' = [tasks EXCEPT ![c] = RootTask]
          /\ UNCHANGED result
       \/ /\ Return(c, "FetcherError")
          /\ UNCHANGED tasks
    /\ UNCHANGED <<cfg, unpacked, desc, derr, manifestStack, idx, uploads, calls,
                   store, added, writes, registry>>

\* Pull going on after Dispatch whatever error it returned
PullDispatchedIgnoreErr(c) ==
    /\ cfg.op = "pull"
    /\ DispatchDone(c)
    /\ tasks' = [tasks EXCEPT ![c] = NoTasks]
    /\ pc' = [pc EXCEPT ![c] = IF schema1Converter THEN "convert" ELSE "update"]
    /\ UNCHANGED <<cfg, unpacked, desc, derr, manifestStack, idx, uploads, calls, result,
                   store, added, writes, registry>>

\* images.Dispatch returns to Pull
PullDispatched(c) ==
    /\ cfg.op = "pull"
    /\ DispatchDone(c)
    /\ tasks' = [tasks EXCEPT ![c] = NoTasks]
    /\ IF derr[c] # "none"
       THEN Return(c, derr[c])
       ELSE /\ pc' = [pc EXCEPT ![c] = IF schema1Converter THEN "convert" ELSE "update"]
            /\ UNCHANGED result
    /\ UNCHANGED <<cfg, unpacked, desc, derr, manifestStack, idx, uploads, calls,
                   store, added, writes, registry>>

\* Pull dropping the descriptor Convert returns
PullConvertKeep(c) ==
    /\ pc[c] = "convert"
    /\ \/ /\ StoreWrite(c, Converted)
          /\ pc' = [pc EXCEPT ![c] = "update"]
          /\ UNCHANGED <<desc, result>>
       \/ /\ Return(c, "ConvertError")
          /\ UNCHANGED <<desc, store, added, writes>>
    /\ UNCHANGED <<cfg, unpacked, tasks, derr, manifestStack, idx, uploads, calls, registry>>

\* desc, err = schema1Converter.Convert(ctx): writes the converted manifest
\* and returns its descriptor
PullConvert(c) ==
    /\ pc[c] = "convert"
    /\ \/ /\ StoreWrite(c, Converted)
          /\ desc' = [desc EXCEPT ![c] = Converted]
          /\ pc' = [pc EXCEPT ![c] = "update"]
          /\ UNCHANGED result
       \/ /\ Return(c, "ConvertError")
          /\ UNCHANGED <<desc, store, added, writes>>
    /\ UNCHANGED <<cfg, unpacked, tasks, derr, manifestStack, idx, uploads, calls, registry>>

\* a tail of Pull that unpacks whatever the option says
UpsertedUnpacks(c) ==
    /\ pc' = [pc EXCEPT ![c] = "unpack"]
    /\ UNCHANGED result

\* the tail of Pull once the record is written: unpack if asked, else return
Upserted(c) ==
    IF cfg.Unpack
    THEN /\ pc' = [pc EXCEPT ![c] = "unpack"]
         /\ UNCHANGED result
    ELSE Return(c, "ok")

\* Pull taking the NotFound of Update for success, without the Create
PullUpdateNoCreate(c) ==
    /\ pc[c] = "update"
    /\ calls' = [calls EXCEPT ![c] = Append(@, "Update")]
    /\ \/ /\ registry' = IF HasRecord THEN StoreUpdate(desc[c]) ELSE registry
          /\ Upserted(c)
       \/ /\ Return(c, "Unavailable")
          /\ UNCHANGED registry
    /\ UNCHANGED <<cfg, unpacked, desc, tasks, derr, manifestStack, idx, uploads,
                   store, added, writes>>

\* Pull building the record it updates from the descriptor Resolve returned,
\* not from the converted one
PullUpdateStale(c) ==
    /\ pc[c] = "update"
    /\ calls' = [calls EXCEPT ![c] = Append(@, "Update")]
    /\ \/ IF HasRecord
          THEN /\ registry' = StoreUpdate(Root)
               /\ Upserted(c)
          ELSE /\ pc' = [pc EXCEPT ![c] = "create"]
               /\ UNCHANGED <<registry, result>>
       \/ /\ Return(c, "Unavailable")
          /\ UNCHANGED registry
    /\ UNCHANGED <<cfg, unpacked, desc, tasks, derr, manifestStack, idx, uploads,
                   store, added, writes>>

\* Pull going on to Create after any error of Update
PullUpdateAnyError(c) ==
    /\ pc[c] = "update"
    /\ calls' = [calls EXCEPT ![c] = Append(@, "Update")]
    /\ \/ IF HasRecord
          THEN /\ registry' = StoreUpdate(desc[c])
               /\ Upserted(c)
          ELSE /\ pc' = [pc EXCEPT ![c] = "create"]
               /\ UNCHANGED <<registry, result>>
       \/ /\ pc' = [pc EXCEPT ![c] = "create"]
          /\ UNCHANGED <<registry, result>>
    /\ UNCHANGED <<cfg, unpacked, desc, tasks, derr, manifestStack, idx, uploads,
                   store, added, writes>>

\* is.Update(ctx, imgrec, "target")
PullUpdate(c) ==
    /\ pc[c] = "update"
    /\ calls' = [calls EXCEPT ![c] = Append(@, "Update")]
    /\ \/ IF HasRecord
          THEN /\ registry' = StoreUpdate(desc[c])
               /\ Upserted(c)
          ELSE \* errdefs.IsNotFound(err)
               /\ pc' = [pc EXCEPT ![c] = "create"]
               /\ UNCHANGED <<registry, result>>
       \/ /\ Return(c, "Unavailable")
          /\ UNCHANGED registry
    /\ UNCHANGED <<cfg, unpacked, desc, tasks, derr, manifestStack, idx, uploads,
                   store, added, writes>>

\* is.Create(ctx, imgrec)
PullCreate(c) ==
    /\ pc[c] = "create"
    /\ calls' = [calls EXCEPT ![c] = Append(@, "Create")]
    /\ \/ IF HasRecord
          THEN /\ Return(c, "AlreadyExists")
               /\ UNCHANGED registry
          ELSE /\ registry' = StoreCreate(desc[c])
               /\ Upserted(c)
       \/ /\ Return(c, "Unavailable")
          /\ UNCHANGED registry
    /\ UNCHANGED <<cfg, unpacked, desc, tasks, derr, manifestStack, idx, uploads,
                   store, added, writes>>

\* Pull removing the record it wrote when Unpack fails
PullUnpackRollback(c) ==
    /\ pc[c] = "unpack"
    /\ calls' = [calls EXCEPT ![c] = Append(@, "Unpack")]
    /\ unpacked' = [unpacked EXCEPT ![c] = Append(@, cfg.Snapshotter)]
    /\ \/ /\ Return(c, "ok")
          /\ UNCHANGED registry
       \/ /\ Return(c, "UnpackError")
          /\ registry' = {r \in registry : r.name # Name}
    /\ UNCHANGED <<cfg, desc, tasks, derr, manifestStack, idx, uploads,
                   store, added, writes>>

\* img.Unpack(ctx, pullCtx.Snapshotter)
PullUnpack(c) ==
    /\ pc[c] = "unpack"
    /\ calls' = [calls EXCEPT ![c] = Append(@, "Unpack")]
    /\ unpacked' = [unpacked EXCEPT ![c] = Append(@, cfg.Snapshotter)]
    /\ \/ Return(c, "ok")
       \/ Return(c, "UnpackError")
    /\ UNCHANGED <<cfg, desc, tasks, derr, manifestStack, idx, uploads,
                   store, added, writes, registry>>

----------------------------------------------------------------------------
(* Client.Push *)

\* pusher, err := pushCtx.Resolver.Pusher(ctx, ref); the handler chain is
\* built and images.Dispatch starts on desc
PushPusher(c) ==
    /\ cfg.op = "push"
    /\ CanStart(c)
    /\ \/ /\ pc' = [pc EXCEPT ![c] = "dispatch"]
          /\ desc' = [desc EXCEPT ![c] = Root]
          /\ tasks' = [tasks EXCEPT ![c] = RootTask]
          /\ UNCHANGED result
       \/ /\ Return(c, "PusherError")
          /\ UNCHANGED <<desc, tasks>>
    /\ UNCHANGED <<cfg, unpacked, derr, manifestStack, idx, uploads, calls,
                   store, added, writes, registry>>

\* Push going on to the final pass whatever Dispatch returned
PushDispatchedIgnoreErr(c) ==
    /\ cfg.op = "push"
    /\ DispatchDone(c)
    /\ tasks' = [tasks EXCEPT ![c] = NoTasks]
    /\ idx' = [idx EXCEPT ![c] = Len(manifestStack[c])]
    /\ IF Len(manifestStack[c]) = 0
       THEN Return(c, "ok")
       ELSE /\ pc' = [pc EXCEPT ![c] = "manifests"]
            /\ UNCHANGED result
    /\ UNCHANGED <<cfg, unpacked, desc, derr, manifestStack, uploads, calls,
                   store, added, writes, registry>>

\* images.Dispatch returns to Push; the final pass starts at the top of
\* manifestStack
PushDispatched(c) ==
    /\ cfg.op = "push"
    /\ DispatchDone(c)
    /\ tasks' = [tasks EXCEPT ![c] = NoTasks]
    /\ IF derr[c] # "none"
       THEN /\ Return(c, derr[c])
            /\ UNCHANGED idx
       ELSE /\ idx' = [idx EXCEPT ![c] = Len(manifestStack[c])]
            /\ IF Len(manifestStack[c]) = 0
               THEN Return(c, "ok")
               ELSE /\ pc' = [pc EXCEPT ![c] = "manifests"]
                    /\ UNCHANGED result
    /\ UNCHANGED <<cfg, unpacked, desc, derr, manifestStack, uploads, calls,
                   store, added, writes, registry>>

\* the final pass walking manifestStack in discovery order
PushManifestsForward(c) ==
    /\ pc[c] = "manifests"
    /\ \/ /\ uploads' = [uploads EXCEPT ![c] =
                            Append(@, manifestStack[c][Len(manifestStack[c]) + 1 - idx[c]])]
          /\ idx' = [idx EXCEPT ![c] = @ - 1]
          /\ IF idx[c] = 1
             THEN Return(c, "ok")
             ELSE UNCHANGED <<pc, result>>
       \/ /\ Return(c, "UploadError")
          /\ UNCHANGED <<uploads, idx>>
    /\ UNCHANGED <<cfg, unpacked, desc, tasks, derr, manifestStack, calls,
                   store, added, writes, registry>>

\* the final pass without the return on a failed upload: the loop goes on to
\* the manifests that remain
PushManifestsContinue(c) ==
    /\ pc[c] = "manifests"
    /\ \/ /\ uploads' = [uploads EXCEPT ![c] = Append(@, manifestStack[c][idx[c]])]
          /\ result' = [result EXCEPT ![c] =
                           IF idx[c] = 1 /\ @ = "none" THEN "ok" ELSE @]
       \/ /\ result' = [result EXCEPT ![c] = "UploadError"]
          /\ UNCHANGED uploads
    /\ idx' = [idx EXCEPT ![c] = @ - 1]
    /\ pc' = [pc EXCEPT ![c] = IF idx[c] = 1 THEN "done" ELSE @]
    /\ UNCHANGED <<cfg, unpacked, desc, tasks, derr, manifestStack, calls,
                   store, added, writes, registry>>

\* one iteration of: for i := len(manifestStack) - 1; i >= 0; i--
\*   pushHandler(ctx, manifestStack[i])
PushManifests(c) ==
    /\ pc[c] = "manifests"
    /\ \/ /\ uploads' = [uploads EXCEPT ![c] = Append(@, manifestStack[c][idx[c]])]
          /\ idx' = [idx EXCEPT ![c] = @ - 1]
          /\ IF idx[c] = 1
             THEN Return(c, "ok")
             ELSE UNCHANGED <<pc, result>>
       \/ /\ Return(c, "UploadError")
          /\ UNCHANGED <<uploads, idx>>
    /\ UNCHANGED <<cfg, unpacked, desc, tasks, derr, manifestStack, calls,
                   store, added, writes, registry>>

----------------------------------------------------------------------------
(* Specifications *)

\* what every call starts from
InitCalls ==
    /\ pc = [c \in Calls |-> "idle"]
    /\ desc = [c \in Calls |-> "none"]
    /\ tasks = [c \in Calls |-> NoTasks]
    /\ derr = [c \in Calls |-> "none"]
    /\ manifestStack = [c \in Calls |-> <<>>]
    /\ idx = [c \in Calls |-> 0]
    /\ uploads = [c \in Calls |-> <<>>]
    /\ calls = [c \in Calls |-> <<>>]
    /\ result = [c \in Calls |-> "none"]
    /\ added = [c \in Calls |-> {}]
    /\ writes = [c \in Calls |-> {}]
    /\ unpacked = [c \in Calls |-> <<>>]

\* The runs: n Pull calls of one reference, or a Push of a graph held in the
\* local content store.  ConvertSchema1 is read by Pull only
\* together with the schema 1 media type of the root (client.go:377), so it
\* is varied for the schema 1 graph alone.  A Push reads nothing an earlier
\* Push wrote (the stack, the mutex and the handlers are per call), so a run
\* of Push is one call.  Snapshotter is read by Pull only when Unpack is set
\* (client.go:422-423), so it is varied with Unpack alone.
Runs(n, conc, graphs) ==
    /\ InitCalls
    /\ \/ /\ cfg \in [op : {"pull"}, graph : graphs, concurrent : {conc}, ncalls : {n},
                      Unpack : BOOLEAN, ConvertSchema1 : BOOLEAN,
                      Snapshotter : {DefaultSnapshotter, OtherSnapshotter},
                      registry0 : {{}, {ImageRecord(OldTarget)}}]
          /\ cfg.ConvertSchema1 => cfg.graph = GSchema1
          /\ cfg.Snapshotter # DefaultSnapshotter => cfg.Unpack
          /\ store = {}
       \/ /\ cfg \in [op : {"push"}, graph : graphs, concurrent : {conc}, ncalls : {1},
                      Unpack : {FALSE}, ConvertSchema1 : {FALSE},
                      Snapshotter : {DefaultSnapshotter}, registry0 : {{}}]
          /\ ~conc
          /\ store = Nodes
    /\ registry = cfg.registry0

\* calls issued one after the other
Init == Runs(NumCalls, FALSE, Graphs)

\* a goroutine of the dispatch of some call runs its next handler
BaseStep == \E c \in Calls : \E t \in DOMAIN tasks[c] : BaseHandler(c, t)
FetchStep == \E c \in Calls : \E t \in DOMAIN tasks[c] : FetchHandler(c, t)
ChildrenStep == \E c \in Calls : \E t \in DOMAIN tasks[c] : ChildrenHandler(c, t)
Schema1Step == \E c \in Calls : \E t \in DOMAIN tasks[c] : Schema1Handler(c, t)
FilterStep == \E c \in Calls : \E t \in DOMAIN tasks[c] : filterHandler(c, t)
AppendStep == \E c \in Calls : \E t \in DOMAIN tasks[c] : filterHandlerAppend(c, t)
PushStep == \E c \in Calls : \E t \in DOMAIN tasks[c] : pushHandler(c, t)

PullNext ==
    \/ \E c \in Calls : PullResolve(c)
    \/ \E c \in Calls : PullFetcher(c)
    \/ \E c \in Calls : PullDispatched(c)
    \/ \E c \in Calls : PullConvert(c)
    \/ \E c \in Calls : PullUpdate(c)
    \/ \E c \in Calls : PullCreate(c)
    \/ \E c \in Calls : PullUnpack(c)
    \/ BaseStep
    \/ FetchStep
    \/ ChildrenStep
    \/ Schema1Step

PushNext ==
    \/ \E c \in Calls : PushPusher(c)
    \/ \E c \in Calls : PushDispatched(c)
    \/ \E c \in Calls : PushManifests(c)
    \/ FilterStep
    \/ AppendStep
    \/ PushStep

Next == PullNext \/ PushNext

Spec == Init /\ [][Next]_vars

\* concurrent Pull calls of one reference
ConcInit == Runs(NumCalls, TRUE, SmallGraphs)

ConcSpec == ConcInit /\ [][PullNext]_vars

\* a single call of Pull or Push
OneInit == Runs(1, FALSE, Graphs)

\* The Go scheduler runs every goroutine that can run: a handler that can
\* take its step takes it, and a Dispatch whose goroutines have all returned
\* returns.
Fairness ==
    /\ WF_vars(BaseStep)
    /\ WF_vars(FetchStep)
    /\ WF_vars(ChildrenStep)
    /\ WF_vars(Schema1Step)
    /\ WF_vars(FilterStep)
    /\ WF_vars(AppendStep)
    /\ WF_vars(PushStep)
    /\ WF_vars(\E c \in Calls : PullDispatched(c))
    /\ WF_vars(\E c \in Calls : PushDispatched(c))

FairSpec == OneInit /\ [][Next]_vars /\ Fairness

----------------------------------------------------------------------------
(* Properties *)

\* the positions of uploads[c]
UploadPos(c) == 1..Len(uploads[c])

\* C1: in every push, whenever a manifest-like descriptor A is uploaded, every
\* manifest-like descendant M of A in the discovered graph has been uploaded
\* before: an upload of M completed before the upload of A started.
C1_ChildManifestBeforeParent ==
    \A c \in Calls : \A j \in UploadPos(c) :
        LET A == uploads[c][j] IN
        IsManifestLike(A) =>
            \A M \in Descendants(A) :
                IsManifestLike(M) => \E k \in 1..(j - 1) : uploads[c][k] = M

\* a finished push of the nested index in which m1 was seen (as a child of
\* the root) before its other parent i1
C1_Witness ==
    \E c \in Calls :
        /\ cfg.op = "push"
        /\ result[c] = "ok"
        /\ manifestStack[c] = <<"root", "m1", "i1", "m1">>
        /\ uploads[c][Len(uploads[c])] = "root"

\* C2: in a successful push of a manifest-like root D, every non-manifest
\* descriptor reachable from D has been uploaded when the traversal is over,
\* no manifest-like descriptor is uploaded before a non-manifest one, and D
\* is the last upload.
C2_BlobsFirstRootLast ==
    \A c \in Calls :
        (cfg.op = "push" /\ IsManifestLike(Root)) =>
            /\ \A j, k \in UploadPos(c) :
                  (j < k /\ IsManifestLike(uploads[c][j])) => IsManifestLike(uploads[c][k])
            /\ (pc[c] = "manifests" \/ result[c] = "ok") =>
                  \A d \in Reachable : ~IsManifestLike(d) => d \in Range(uploads[c])
            /\ pc[c] = "manifests" /\ idx[c] = Len(manifestStack[c]) =>
                  \A j \in UploadPos(c) : ~IsManifestLike(uploads[c][j])
            /\ result[c] = "ok" =>
                  /\ uploads[c] # <<>>
                  /\ uploads[c][Len(uploads[c])] = Root
                  /\ \A j \in 1..(Len(uploads[c]) - 1) : uploads[c][j] # Root

\* the push of a manifest with a config and a layer has returned: the layer
\* went first, the config second, the manifest last
C2_Witness ==
    \E c \in Calls :
        /\ cfg.op = "push"
        /\ cfg.graph = GManifest
        /\ result[c] = "ok"
        /\ uploads[c] = <<"l2", "l1", "root">>

\* the descriptors the goroutines of call c were started on
Handled(c) == {tasks[c][t].desc : t \in DOMAIN tasks[c]}

\* the number of times the handler chain has been invoked on d in call c
Invocations(c, d) ==
    Cardinality({t \in DOMAIN tasks[c] : tasks[c][t].desc = d /\ tasks[c][t].pc # 1})

\* C3: a dispatch started by Pull or Push on a finite acyclic graph reaches,
\* under fair scheduling, the state where every goroutine has returned, with
\* the chain invoked on every reachable descriptor unless a handler failed,
\* and then returns to its caller.
C3_DispatchTerminates ==
    \A c \in Calls :
        /\ (pc[c] = "dispatch") ~>
              (/\ DispatchDone(c)
               /\ derr[c] = "none" =>
                     \A d \in Reachable : Invocations(c, d) >= 1)
        /\ (pc[c] = "dispatch") ~> (pc[c] # "dispatch")

\* the dispatch of a pull of the nested index is over without error, every
\* descriptor handled
C3_Witness ==
    \E c \in Calls :
        /\ cfg.op = "pull"
        /\ cfg.graph = GNested
        /\ DispatchDone(c)
        /\ derr[c] = "none"
        /\ Handled(c) = Nodes

Records == {r \in registry : r.name = Name}

\* call c has written its Image Record
HasUpserted(c) == pc[c] = "unpack" \/ result[c] \in {"ok", "UnpackError"}

\* C5: once a pull's resolve, dispatch and upsert have succeeded, the image
\* store holds exactly one record for the resolved name, its target the
\* descriptor pulled; the record was created (Update, then Create) when none
\* existed before the pull and updated in place (Update alone) otherwise.
C5_UpsertOneRecord ==
    cfg.op = "pull" =>
        /\ Cardinality(Records) <= 1
        /\ \A c \in Calls :
              (HasUpserted(c) /\ \A q \in Calls : q > c => calls[q] = <<>>) =>
                  /\ Records = {ImageRecord(desc[c])}
                  /\ desc[c] = IF schema1Converter THEN Converted ELSE Root
        /\ HasUpserted(1) =>
              IF cfg.registry0 = {}
              THEN Len(calls[1]) >= 2 /\ calls[1][1] = "Update" /\ calls[1][2] = "Create"
              ELSE calls[1][1] = "Update" /\ "Create" \notin Range(calls[1])
        /\ \A c \in Calls :
              (c > 1 /\ HasUpserted(1) /\ HasUpserted(c)) => "Create" \notin Range(calls[c])

\* the first pull created the record, the second updated it in place
C5_Witness ==
    /\ cfg.op = "pull"
    /\ cfg.registry0 = {}
    /\ result[1] = "ok"
    /\ calls[1] = <<"Update", "Create">>
    /\ result[2] = "ok"
    /\ calls[2] = <<"Update">>
    /\ registry = {ImageRecord(Root)}

\* C6 as stated: the upsert of a pull that starts when no record exists does
\* not fail on "already exists", whatever the other pulls of the name do.
C6_UpsertNeverAlreadyExists ==
    \A c \in Calls :
        (cfg.registry0 = {} /\ pc[c] = "done") => result[c] # "AlreadyExists"

\* the errors Pull returns before it reaches the image store
EarlyErrors ==
    {"ResolveError", "FetcherError", "BaseError", "FetchError",
     "UnsupportedFormat", "NotFound", "ConvertError"}

\* C7: a pull that fails at resolve, at obtaining the fetcher, in the
\* dispatch or at the schema 1 conversion has invoked neither Update nor
\* Create, and the image store is as the pull found it.
C7_FailedPullLeavesRegistry ==
    \A c \in Calls :
        (cfg.op = "pull" /\ (derr[c] # "none" \/ result[c] \in EarlyErrors)) =>
            /\ calls[c] = <<>>
            /\ pc[c] \in {"dispatch", "done"}
            /\ pc[c] = "done" => result[c] \in EarlyErrors
            /\ (\A q \in Calls : q # c => calls[q] = <<>>) => registry = cfg.registry0

\* a pull has failed in its dispatch after fetching part of the graph, the
\* record of an earlier pull untouched
C7_Witness ==
    \E c \in Calls :
        /\ cfg.op = "pull"
        /\ result[c] = "FetchError"
        /\ writes[c] # {}
        /\ cfg.registry0 # {}
        /\ registry = cfg.registry0

\* C8: when the resolved root is a schema 1 manifest and conversion is not
\* enabled, Pull never succeeds, writes nothing to the content store and
\* calls neither Update nor Create; the error it returns is UnsupportedFormat
\* (unless obtaining the fetcher or a base handler has failed before the
\* fetch handler saw the root).
C8_Schema1Unsupported ==
    (cfg.op = "pull" /\ MediaType(Root) = MediaTypeDockerSchema1Manifest
                     /\ ~cfg.ConvertSchema1) =>
        /\ registry = cfg.registry0
        /\ \A c \in Calls :
              /\ writes[c] = {}
              /\ calls[c] = <<>>
              /\ result[c] # "ok"
              /\ (pc[c] = "done" /\ result[c] \notin {"ResolveError", "FetcherError", "BaseError"})
                    => result[c] = "UnsupportedFormat"

\* a pull of the schema 1 manifest has returned UnsupportedFormat
C8_Witness ==
    \E c \in Calls :
        /\ cfg.op = "pull"
        /\ ~cfg.ConvertSchema1
        /\ result[c] = "UnsupportedFormat"
        /\ store = {}

\* C9: after a pull that succeeded, a later pull of the same reference adds
\* nothing to the content store (what it writes is already present) and the
\* image store holds, throughout and after it, the record the first pull left.
C9_PullIdempotent ==
    cfg.op = "pull" =>
        \A q, c \in Calls :
            (q < c /\ result[q] = "ok") =>
                /\ added[c] = {}
                /\ registry = {ImageRecord(desc[q])}
                /\ HasUpserted(c) => desc[c] = desc[q]

\* two pulls in sequence have succeeded, the second having written to the
\* store without adding to it
C9_Witness ==
    /\ cfg.op = "pull"
    /\ cfg.graph = GSchema1
    /\ result[1] = "ok"
    /\ result[2] = "ok"
    /\ writes[2] = {"l1", Converted}
    /\ added[2] = {}

\* C10: a pull returns success only if no handler invocation of its dispatch
\* failed and every reachable descriptor went through the fetch handler; once
\* any invocation has failed, Pull returns that error and calls neither
\* Update nor Create.
C10_ListPullAllOrNothing ==
    \A c \in Calls :
        cfg.op = "pull" =>
            /\ result[c] = "ok" =>
                  /\ derr[c] = "none"
                  /\ ~schema1Converter => Reachable \subseteq writes[c]
            /\ derr[c] # "none" =>
                  /\ result[c] \in {"none", derr[c]}
                  /\ calls[c] = <<>>

\* the pull of the manifest list has failed on one descriptor after the
\* root and one manifest had been fetched
C10_Witness ==
    \E c \in Calls :
        /\ cfg.op = "pull"
        /\ cfg.graph = GList
        /\ result[c] = "FetchError"
        /\ {"root", "m1"} \subseteq writes[c]
        /\ registry = cfg.registry0

\* a sequence back to front
Reverse(q) == [i \in 1..Len(q) |-> q[Len(q) + 1 - i]]

\* the manifest-like descriptors uploaded by call c, in order
ManifestUploads(c) == SelectSeq(uploads[c], IsManifestLike)

\* C11: once a handler invocation of a push's traversal has failed (an upload
\* among them), Push returns the dispatch's error and has uploaded no
\* manifest-like descriptor; when an upload of the final pass fails, Push
\* returns that error and the manifests uploaded are exactly the stack entries
\* above the failed one, in reverse: the entries that remain, the root among
\* them, are not uploaded.
C11_UploadFailureAborts ==
    \A c \in Calls :
        cfg.op = "push" =>
            /\ derr[c] # "none" =>
                  /\ ManifestUploads(c) = <<>>
                  /\ pc[c] \in {"dispatch", "done"}
                  /\ pc[c] = "done" => result[c] = derr[c]
            /\ (derr[c] = "none" /\ result[c] = "UploadError") =>
                  /\ idx[c] >= 1
                  /\ ManifestUploads(c) =
                        Reverse(SubSeq(manifestStack[c], idx[c] + 1, Len(manifestStack[c])))
                  /\ Root \notin Range(uploads[c])
            /\ pc[c] = "done" =>
                  (result[c] = "ok" <=>
                      (derr[c] = "none" /\ ManifestUploads(c) = Reverse(manifestStack[c])
                                        /\ desc[c] = Root))

\* the final pass of a push of the nested index has failed on an entry after
\* uploading the entries above it
C11_Witness ==
    \E c \in Calls :
        /\ cfg.op = "push"
        /\ cfg.graph = GNested
        /\ derr[c] = "none"
        /\ result[c] = "UploadError"
        /\ idx[c] = 2
        /\ Len(ManifestUploads(c)) = 2

\* q is an initial segment of r
IsPrefix(q, r) == Len(q) <= Len(r) /\ q = SubSeq(r, 1, Len(q))

\* the operation-specific handlers invoked on goroutine t of call c
Specific(c, t) ==
    SelectSeq(tasks[c][t].ran, LAMBDA h : h # "base")

\* C12: on every descriptor handled in a dispatch the base handlers are
\* invoked before any operation-specific handler, and the operation-specific
\* handlers in the configured order: in Pull the fetch has completed (the
\* content is in the store) before children discovery is invoked, so children
\* discovery never misses the content; in Push children discovery comes
\* first, then the manifest filter, then the upload.
C12_HandlerOrder ==
    \A c \in Calls :
        /\ derr[c] # "NotFound"
        /\ \A t \in DOMAIN tasks[c] :
              LET r == tasks[c][t].ran
              IN  /\ \A i \in 1..Len(r) : (r[i] = "base") <=> (i <= NumBase)
                  /\ cfg.op = "pull" =>
                        /\ \/ IsPrefix(Specific(c, t), <<"FetchHandler", "ChildrenHandler">>)
                           \/ IsPrefix(Specific(c, t), <<"schema1Converter">>)
                        /\ "ChildrenHandler" \in Range(r) => tasks[c][t].desc \in writes[c]
                  /\ cfg.op = "push" =>
                        IsPrefix(Specific(c, t), <<"ChildrenHandler", "filterHandler", "pushHandler">>)

C12_Witness ==
    \E c \in Calls : \E t \in DOMAIN tasks[c] :
        /\ cfg.op = "pull"
        /\ tasks[c][t].ran = BaseHandlers \o <<"FetchHandler", "ChildrenHandler">>
        /\ tasks[c][t].children # <<>>
        /\ \E u \in DOMAIN tasks[c] : Len(u) > Len(t)


\* the last handler invoked on goroutine t of call c
LastRan(c, t) == tasks[c][t].ran[Len(tasks[c][t].ran)]

\* C13: in the traversal of a push the upload handler is never invoked on a
\* manifest-like descriptor: the filter appends the descriptor to the stack
\* and stops the chain there, the children collected before still being
\* dispatched; a manifest-like descriptor is uploaded only in the final
\* pass, after the dispatch returned without error; a non-manifest
\* descriptor passes the filter and the upload handler is the next invoked.
C13_ManifestsDeferred ==
    \A c \in Calls :
        cfg.op = "push" =>
            /\ pc[c] = "dispatch" => ManifestUploads(c) = <<>>
            /\ ManifestUploads(c) # <<>> =>
                  derr[c] = "none" /\ pc[c] \in {"manifests", "done"}
            /\ \A t \in DOMAIN tasks[c] :
                  LET tk == tasks[c][t]
                  IN  "filterHandler" \in Range(tk.ran) =>
                          IF IsManifestLike(tk.desc)
                          THEN /\ LastRan(c, t) = "filterHandler"
                               /\ tk.pc = 0
                               /\ tk.desc \in Range(manifestStack[c])
                               /\ tk.children = Links(tk.desc)
                          ELSE /\ tk.desc \notin Range(manifestStack[c])
                               /\ \/ tk.pc > 0 /\ Handlers[tk.pc] = "pushHandler"
                                  \/ LastRan(c, t) = "pushHandler"

C13_Witness ==
    \E c \in Calls :
        /\ cfg.op = "push"
        /\ pc[c] = "dispatch"
        /\ manifestStack[c] # <<>>
        /\ uploads[c] # <<>>
        /\ \E t \in DOMAIN tasks[c] :
              /\ IsManifestLike(tasks[c][t].desc)
              /\ "filterHandler" \in Range(tasks[c][t].ran)
              /\ tasks[c][t].children # <<>>


\* the number of entries of q that are d
Count(q, d) == Cardinality({i \in 1..Len(q) : q[i] = d})

\* the goroutines of call c on whose manifest-like descriptor filterHandler
\* has returned
Filtered(c) ==
    {t \in DOMAIN tasks[c] :
        /\ IsManifestLike(tasks[c][t].desc)
        /\ "filterHandler" \in Range(tasks[c][t].ran)}

\* C14: the appends of concurrent goroutines to manifestStack exclude one
\* another (at most one goroutine is between Lock and Unlock, and the slice
\* it read is still the stack) and none is lost: throughout the traversal,
\* and so when every goroutine has returned, the stack holds one entry per
\* returned filterHandler invocation on a manifest-like descriptor; the
\* reverse iteration runs when no goroutine is left, on a stack that holds
\* one entry per path from the root to each manifest-like descriptor.
C14_AppendsSerialized ==
    \A c \in Calls :
        cfg.op = "push" =>
            /\ Cardinality(m(c)) <= 1
            /\ \A t \in m(c) : tasks[c][t].local = manifestStack[c]
            /\ pc[c] = "dispatch" =>
                  \A d \in Nodes :
                      Count(manifestStack[c], d) =
                          Cardinality({t \in Filtered(c) : tasks[c][t].desc = d})
            /\ \/ pc[c] = "manifests"
               \/ derr[c] = "none" /\ result[c] \in {"ok", "UploadError"} =>
                  /\ tasks[c] = NoTasks
                  /\ \A d \in Nodes :
                        Count(manifestStack[c], d) =
                            IF IsManifestLike(d) THEN PathCount(Root, d) ELSE 0

C14_Witness ==
    \E c \in Calls :
        /\ cfg.op = "push"
        /\ manifestStack[c] # <<>>
        /\ \E t, u \in DOMAIN tasks[c] :
              /\ t \in m(c)
              /\ u # t
              /\ IsManifestLike(tasks[c][u].desc)
              /\ Running(c, u, "filterHandler")


\* the goroutine whose chain returned the descriptor of goroutine t
Parent(t) == SubSeq(t, 1, Len(t) - 1)

\* C15: a goroutine runs the chain on a child only when the chain invocation
\* on the parent that returned it has completed; so, at every state of a
\* push, the first stack entry is the root and every later entry has at a
\* smaller index an entry for a manifest-like descriptor of which it is a
\* child.  Siblings are not ordered (the witness has them in the order
\* opposite to the parent's list).
C15_ParentBeforeChild ==
    \A c \in Calls :
        /\ \A t \in DOMAIN tasks[c] :
              t # <<>> =>
                  /\ Parent(t) \in DOMAIN tasks[c]
                  /\ tasks[c][Parent(t)].pc = 0
                  /\ t[Len(t)] \in 1..Len(tasks[c][Parent(t)].children)
                  /\ tasks[c][t].desc = tasks[c][Parent(t)].children[t[Len(t)]]
        /\ cfg.op = "push" =>
              \A i \in 1..Len(manifestStack[c]) :
                  IF i = 1 THEN manifestStack[c][i] = Root
                  ELSE \E j \in 1..(i - 1) :
                          /\ IsManifestLike(manifestStack[c][j])
                          /\ manifestStack[c][i] \in Range(Children(manifestStack[c][j]))

C15_Witness ==
    \E c \in Calls :
        /\ cfg.op = "push"
        /\ cfg.graph = GList
        /\ manifestStack[c] = <<Root, "m2", "m1">>


\* the goroutines of call c that are still running their chain
InFlight(c) == {t \in DOMAIN tasks[c] : tasks[c][t].pc > 0}

\* C16: once a handler invocation of a dispatch has returned a hard error,
\* that error stays the dispatch's error whatever the goroutines in flight
\* return later, no further goroutine is started (the children they return
\* are not dispatched), they may only move on in their chains, and the call
\* ends with that first error.
C16_FirstErrorWins ==
    [][\A c \in Calls :
          derr[c] # "none" =>
              /\ derr'[c] = derr[c]
              /\ DOMAIN tasks'[c] \subseteq DOMAIN tasks[c]
              /\ InFlight(c)' \subseteq InFlight(c)
              /\ (pc[c] = "dispatch" /\ pc'[c] # "dispatch") =>
                    (pc'[c] = "done" /\ result'[c] = derr[c])]_vars

\* a goroutine in flight when the dispatch had failed has returned children,
\* none of which was dispatched
C16_Witness ==
    \E c \in Calls :
        /\ pc[c] = "dispatch"
        /\ derr[c] # "none"
        /\ \E t \in DOMAIN tasks[c] :
              /\ tasks[c][t].pc = 0
              /\ tasks[c][t].children # <<>>
              /\ \A u \in DOMAIN tasks[c] : Len(u) > Len(t) => SubSeq(u, 1, Len(t)) # t


\* the last store call of a sequence of calls
Last(q) == q[Len(q)]

\* C17: in the upsert of Pull, Create is called only from the point reached
\* when Update found no record of the name (its NotFound), the registry
\* untouched; when Update ends the upsert otherwise, Create has not been
\* called and the pull either failed with Update's error or updated the
\* record; and when Create adds the record the pull goes on (to unpack or to
\* its successful return): the NotFound of Update is never the result.
C17_CreateOnlyAfterNotFound ==
    [][\A c \in Calls :
          /\ (calls'[c] # calls[c] /\ Last(calls'[c]) = "Create") =>
                (pc[c] = "create" /\ Last(calls[c]) = "Update")
          /\ (pc[c] = "update" /\ pc'[c] = "create") =>
                (~HasRecord /\ registry' = registry)
          /\ (pc[c] = "update" /\ pc'[c] \notin {"update", "create"}) =>
                /\ "Create" \notin Range(calls'[c])
                /\ \/ result'[c] = "Unavailable" /\ pc'[c] = "done" /\ registry' = registry
                   \/ result'[c] \in {"none", "ok"} /\ HasRecord /\ registry' = StoreUpdate(desc[c])
          /\ (pc[c] = "create" /\ registry' # registry) =>
                /\ result'[c] \in {"none", "ok"}
                /\ pc'[c] \in {"unpack", "done"}
          /\ cfg.op = "pull" => result'[c] # "NotFound"]_vars

C17_Witness ==
    /\ cfg.op = "pull"
    /\ calls[1] = <<"Update", "Create">>
    /\ result[1] = "ok"
    /\ calls[2] = <<"Update">>
    /\ result[2] = "Unavailable"
    /\ Records = {ImageRecord(desc[1])}


\* C18: when the resolved root is a schema 1 manifest and conversion is on,
\* the only operation-specific handler invoked in the dispatch is the
\* converter (neither fetch nor children discovery); the pull holds the
\* converted descriptor only once its dispatch has returned without error;
\* and every record the pull writes has the converted descriptor as target,
\* never the schema 1 descriptor resolved.
C18_Schema1Converted ==
    (cfg.op = "pull" /\ schema1Converter) =>
        /\ \A c \in Calls :
              /\ \A t \in DOMAIN tasks[c] :
                    IsPrefix(Specific(c, t), <<"schema1Converter">>)
              /\ derr[c] # "UnsupportedFormat"
              /\ desc[c] = Converted =>
                    /\ derr[c] = "none"
                    /\ tasks[c] = NoTasks
                    /\ pc[c] \in {"update", "create", "unpack", "done"}
              /\ pc[c] \in {"update", "create", "unpack"} => desc[c] = Converted
              /\ HasUpserted(c) => desc[c] = Converted
        /\ \A r \in Records : r.target # Root
        /\ registry # cfg.registry0 => Records = {ImageRecord(Converted)}

C18_Witness ==
    \E c \in Calls :
        /\ cfg.op = "pull"
        /\ schema1Converter
        /\ result[c] = "ok"
        /\ desc[c] = Converted
        /\ cfg.registry0 = {}
        /\ Records = {ImageRecord(Converted)}


\* C19: Pull invokes Unpack only when the Unpack option is set, at most once,
\* with the snapshotter name of its RemoteContext, and only after the upsert
\* of the record has succeeded (the record of the pulled descriptor is in
\* the image store and no error has been returned); when Unpack fails the
\* pull returns an error, and when the option is set a pull returns
\* success only after its Unpack.
C19_UnpackAfterUpsert ==
    \A c \in Calls :
        /\ unpacked[c] # <<>> =>
              /\ cfg.op = "pull"
              /\ cfg.Unpack
              /\ unpacked[c] = <<cfg.Snapshotter>>
              /\ Last(calls[c]) = "Unpack"
              /\ Len(calls[c]) >= 2
              /\ calls[c][Len(calls[c]) - 1] \in {"Update", "Create"}
              /\ derr[c] = "none"
              /\ result[c] \in {"ok", "UnpackError"}
              /\ (\A q \in Calls : q > c => calls[q] = <<>>) =>
                    Records = {ImageRecord(desc[c])}
        /\ "Unpack" \in Range(calls[c]) <=> unpacked[c] # <<>>
        /\ pc[c] = "unpack" =>
              /\ Records = {ImageRecord(desc[c])}
              /\ Last(calls[c]) \in {"Update", "Create"}
        /\ (cfg.op = "pull" /\ cfg.Unpack /\ result[c] = "ok") => unpacked[c] # <<>>

C19_Witness ==
    \E c \in Calls :
        /\ cfg.Snapshotter = OtherSnapshotter
        /\ unpacked[c] = <<OtherSnapshotter>>
        /\ result[c] = "UnpackError"
        /\ calls[c] = <<"Update", "Create", "Unpack">>


\* C20: a pull that fails at Unpack is not rolled back: when it returns the
\* unpack error, the record it created or updated is in the image store with
\* the descriptor it pulled as target, so the image store differs from the
\* one the run started with (whose record, if any, had another target),
\* whereas a pull that failed before the upsert left it as it was.
C20_UnpackFailureKeepsRecord ==
    \A c \in Calls :
        (result[c] = "UnpackError" /\ \A q \in Calls : q > c => calls[q] = <<>>) =>
            /\ ImageRecord(desc[c]) \in registry
            /\ Records = {ImageRecord(desc[c])}
            /\ desc[c] \in {Root, Converted}
            /\ registry # cfg.registry0
            /\ calls[c] \in {<<"Update", "Unpack">>, <<"Update", "Create", "Unpack">>}

C20_Witness ==
    /\ cfg.op = "pull"
    /\ cfg.registry0 = {ImageRecord(OldTarget)}
    /\ result[1] = "UnpackError"
    /\ calls[1] = <<"Update", "Unpack">>
    /\ registry = {ImageRecord(Root)}


====
